---- MODULE Spec2Model ----
(***************************************************************************)
(* Model of src/pruning_strategy.py: UFOPruningStrategy, the controller    *)
(* that ties the trunk of a plant graph to a sequence of trellis targets   *)
(* and assigns first-generation leaders to wire walls, and the helper      *)
(* query_dist_from_line_points.                                            *)
(*                                                                         *)
(* Lengths are integers counted in tenths of a length unit, so that the    *)
(* defaults 0.9 and 2.5 of the source are the integers 9 and 25.  Points   *)
(* are triples of integers; the graphs that are enumerated only contain    *)
(* segments whose Euclidean length is an integer.                          *)
(***************************************************************************)
EXTENDS Integers, Sequences, FiniteSets, TLC

VARIABLES
    trunk_targets,      \* self.trunk_targets: sequence of target names
    wire_walls,         \* self.wire_walls: an integer count or a mapping
    params,             \* self.params: the named options that were given
    next_trunk_target,  \* self.next_trunk_target
    leaders_assigned,   \* self.leaders_assigned
    tree,               \* self.tree: the plant graph bound by set_tree
    tick,               \* what the last apply_strategy call did
    tied,               \* targets passed to set_guide_on_nodes so far
    waited,             \* history: a tick was skipped for want of trunk length
    pt,                 \* argument of query_dist_from_line_points
    sorted_array,       \* argument of query_dist_from_line_points
    result              \* value returned by query_dist_from_line_points

vars == <<trunk_targets, wire_walls, params, next_trunk_target,
          leaders_assigned, tree, tick, tied, waited, pt, sorted_array,
          result>>

(***************************************************************************)
(* Bounds of the exploration.                                              *)
(***************************************************************************)
MaxTrunkNodes == 4
MaxTargets == 2
MaxLeaders == 2
MaxArrayLen == 3
MaxCoord == 3

(***************************************************************************)
(* Defaults of the named options.                                          *)
(***************************************************************************)
DefaultLeadersPerWall == 5
DefaultLeaderSpacing == 9
DefaultTrunkBareDist == 50
DefaultLeaderExcessStub == 25

(***************************************************************************)
(* numpy and Python helpers.                                               *)
(***************************************************************************)
Range(s) == {s[i] : i \in 1..Len(s)}

Abs(x) == IF x < 0 THEN -x ELSE x

\* a[lo:] of Python, lo counted from 0
SliceFrom(s, lo) == SubSeq(s, lo + 1, Len(s))

\* a[:hi] of Python, hi counted from 0 and clipped to the length
SliceTo(s, hi) == SubSeq(s, 1, IF hi > Len(s) THEN Len(s) ELSE hi)

VSub(a, b) == <<a[1] - b[1], a[2] - b[2], a[3] - b[3]>>

Sqrt(n) == CHOOSE r \in 0..n : r * r = n

\* np.linalg.norm of one row
Norm(v) == Sqrt(v[1] * v[1] + v[2] * v[2] + v[3] * v[3])

\* pts[:-1] - pts[1:]
RowDiffs(pts) == [k \in 1..(Len(pts) - 1) |-> VSub(pts[k], pts[k + 1])]

RECURSIVE CumSum(_)
\* np.cumsum of a one-dimensional array
CumSum(s) ==
    IF Len(s) = 0 THEN <<>>
    ELSE LET head == CumSum(SubSeq(s, 1, Len(s) - 1))
         IN  Append(head, (IF Len(head) = 0 THEN 0 ELSE head[Len(head)]) + s[Len(s)])

RECURSIVE Flatten(_)
\* the row-major order in which np.cumsum without an axis reads a 2-d array
Flatten(rows) ==
    IF Len(rows) = 0 THEN <<>> ELSE rows[1] \o Flatten(Tail(rows))

\* np.argmax of a boolean array: the first True, 0 when there is none
ArgMaxGreater(arr, x) ==
    LET hits == {k \in 1..Len(arr) : arr[k] > x}
    IN  IF hits = {} THEN 0
        ELSE (CHOOSE k \in hits : \A j \in hits : k <= j) - 1

\* Python's  a or b  on integers
PyOr(a, b) == IF a # 0 THEN a ELSE b

\* dict.get(key, default) on self.params
ParamGet(p, key, default) == IF key \in DOMAIN p THEN p[key] ELSE default

(***************************************************************************)
(* The plant graph.  A branch is a record with its generation, its nodes,  *)
(* its points, for each internode whether its post_modules carry Flags     *)
(* with the value 1, and for each internode its pre_modules.               *)
(***************************************************************************)

\* LStringGraphDual.search_branches(attribute, '=', value): matching ids
search_branches(tr, generation) ==
    SelectSeq([i \in 1..Len(tr.branches) |-> i],
              LAMBDA i : tr.branches[i].generation = generation)

\* the assert_unique=True form: fails unless exactly one branch matches
unique_ok(found) == Len(found) = 1

NoTarget == -1

\* the record of a tie_down_trunk call that did nothing
TrunkIdle(ntt) ==
    [raised |-> "none", next_trunk_target |-> ntt, target |-> NoTarget,
     length |-> -1, dist_to_target |-> -1, offset |-> -1,
     fit_attempted |-> FALSE, success |-> FALSE, curve_len |-> -1,
     tail |-> <<>>, cumul_lens |-> <<>>, guide_calls |-> <<>>]

\* index of the last internode whose post_modules carry Flags with 1, plus one
last_tie_idx_of(flags) ==
    LET hits == {k \in 1..Len(flags) : flags[k]}
    IN  IF hits = {} THEN 0 ELSE CHOOSE k \in hits : \A j \in hits : j <= k

\* line 71: the index up to which the tail's nodes are folded into the curve
tie_down_node_idx(cumul_lens, curve_len, n) ==
    PyOr(ArgMaxGreater(cumul_lens, curve_len), n - 2) + 1

\* tie_result with the increment outside the test of rez.success
tie_result_always_advances(seen, ntt, nodes, cumul_lens, ext) ==
    IF ~ext.success
    THEN [seen EXCEPT !.fit_attempted = TRUE, !.next_trunk_target = ntt + 1]
    ELSE [seen EXCEPT !.fit_attempted = TRUE, !.success = TRUE,
             !.curve_len = ext.curve_len,
             !.guide_calls =
                 <<SliceTo(nodes, tie_down_node_idx(cumul_lens, ext.curve_len,
                                                    Len(nodes)) + 1)>>,
             !.next_trunk_target = ntt + 1]

\* tie_result where a fit that does not converge raises
tie_result_fit_raises(seen, ntt, nodes, cumul_lens, ext) ==
    IF ~ext.success
    THEN [seen EXCEPT !.fit_attempted = TRUE, !.raised = "RuntimeError"]
    ELSE [seen EXCEPT !.fit_attempted = TRUE, !.success = TRUE,
             !.curve_len = ext.curve_len,
             !.guide_calls =
                 <<SliceTo(nodes, tie_down_node_idx(cumul_lens, ext.curve_len,
                                                    Len(nodes)) + 1)>>,
             !.next_trunk_target = ntt + 1]

\* lines 63-74: the fit has been run with the result ext
tie_result(seen, ntt, nodes, cumul_lens, ext) ==
    IF ~ext.success
    THEN [seen EXCEPT !.fit_attempted = TRUE]
    ELSE [seen EXCEPT !.fit_attempted = TRUE, !.success = TRUE,
             !.curve_len = ext.curve_len,
             !.guide_calls =
                 <<SliceTo(nodes, tie_down_node_idx(cumul_lens, ext.curve_len,
                                                    Len(nodes)) + 1)>>,
             !.next_trunk_target = ntt + 1]

\* tie_guarded with >= in the length guard
tie_guarded_weak(seen, ntt, nodes, pts, cumul_lens, ext) ==
    IF ~(seen.length >= seen.dist_to_target + seen.offset) THEN seen
    ELSE IF nodes[1] = 0 /\ Len(pts) < 3
         THEN [seen EXCEPT !.raised = "IndexError"]
    ELSE tie_result(seen, ntt, nodes, cumul_lens, ext)

\* lines 62-64: the length guard, and the tangent pts[2 if nodes[0] == 0 else 1]
\* that is read before the fit is called
tie_guarded(seen, ntt, nodes, pts, cumul_lens, ext) ==
    IF ~(seen.length > seen.dist_to_target + seen.offset) THEN seen
    ELSE IF nodes[1] = 0 /\ Len(pts) < 3
         THEN [seen EXCEPT !.raised = "IndexError"]
    ELSE tie_result(seen, ntt, nodes, cumul_lens, ext)

\* target_pt as returned by target.get_point_sequence_dist(pts)
target_point(pts, ext) ==
    <<pts[1][1] + ext.off[1], pts[1][2] + ext.off[2], pts[1][3] + ext.off[3]>>

\* lines 60-74: the tail has positive length
tie_attempt(ntt, target, nodes, pts, cumul_lens, ext) ==
    tie_guarded([TrunkIdle(ntt) EXCEPT
                    !.target = target,
                    !.length = cumul_lens[Len(cumul_lens)],
                    !.dist_to_target = ext.dist_to_target,
                    !.offset = Norm(VSub(target_point(pts, ext), pts[1])),
                    !.tail = nodes, !.cumul_lens = cumul_lens],
                ntt, nodes, pts, cumul_lens, ext)

\* lines 59-60: length = cumul_lens[-1] and its test
tie_on_lens(ntt, target, nodes, pts, cumul_lens, ext) ==
    IF Len(cumul_lens) = 0
    THEN [TrunkIdle(ntt) EXCEPT !.raised = "IndexError", !.tail = nodes]
    ELSE IF ~(cumul_lens[Len(cumul_lens)] > 0)
    THEN [TrunkIdle(ntt) EXCEPT !.tail = nodes, !.length = 0,
                                !.cumul_lens = cumul_lens]
    ELSE tie_attempt(ntt, target, nodes, pts, cumul_lens, ext)

\* lines 57-58: offsets and their cumulative sum
cumul_lens_of(pts) ==
    CumSum([k \in 1..(Len(pts) - 1) |-> Norm(VSub(pts[k], pts[k + 1]))])

\* lines 48-58: the tail after the last tied internode
tie_on_tail(ntt, target, root_branch, last_tie_idx, ext) ==
    tie_on_lens(ntt, target,
                SliceFrom(root_branch.nodes, last_tie_idx),
                SliceFrom(root_branch.points, last_tie_idx),
                cumul_lens_of(SliceFrom(root_branch.points, last_tie_idx)), ext)

\* tie_on_branches that takes the first generation-0 branch, without
\* assert_unique
tie_on_branches_first_match(ntt, target, tr, found, ext) ==
    IF Len(found) = 0
    THEN [TrunkIdle(ntt) EXCEPT !.raised = "AssertionError"]
    ELSE tie_on_tail(ntt, target, tr.branches[found[1]],
                     last_tie_idx_of(tr.branches[found[1]].flags), ext)

\* lines 44-45: the unique generation-0 branch
tie_on_branches(ntt, target, tr, found, ext) ==
    IF ~unique_ok(found)
    THEN [TrunkIdle(ntt) EXCEPT !.raised = "AssertionError"]
    ELSE tie_on_tail(ntt, target, tr.branches[found[1]],
                     last_tie_idx_of(tr.branches[found[1]].flags), ext)

\* tie_down_trunk whose terminal test stops one target early
tie_down_trunk_stops_early(ntt, targets, tr, ext) ==
    IF ~(ntt + 1 < Len(targets)) THEN TrunkIdle(ntt)
    ELSE tie_on_branches(ntt, targets[ntt + 1], tr, search_branches(tr, 0), ext)

\* UFOPruningStrategy.tie_down_trunk
tie_down_trunk(ntt, targets, tr, ext) ==
    IF ~(ntt < Len(targets)) THEN TrunkIdle(ntt)
    ELSE tie_on_branches(ntt, targets[ntt + 1], tr, search_branches(tr, 0), ext)

(***************************************************************************)
(* query_dist_from_line_points.  A returned value is a record: a number,   *)
(* np.inf, or None when the function falls off its end.                   *)
(***************************************************************************)
Num(x) == [kind |-> "num", val |-> x]

np_inf == [kind |-> "inf", val |-> 0]

None == [kind |-> "None", val |-> 0]

\* no call has been made yet
Unset == [kind |-> "unset", val |-> 0]

Min2(a, b) == IF b < a THEN b ELSE a

RECURSIVE scan_pairs(_, _, _)
\* lines 207-209: the first consecutive pair l, u with l <= pt < u
scan_pairs(p, arr, k) ==
    IF k > Len(arr) - 1 THEN None
    ELSE IF arr[k] <= p /\ p < arr[k + 1]
         THEN Num(Min2(p - arr[k], arr[k + 1] - p))
         ELSE scan_pairs(p, arr, k + 1)

\* query_dist_from_line_points with > in the test against the last element
query_dist_strict_last(p, arr) ==
    IF Len(arr) = 0 THEN np_inf
    ELSE IF p < arr[1] THEN Num(arr[1] - p)
    ELSE IF p > arr[Len(arr)] THEN Num(p - arr[Len(arr)])
    ELSE scan_pairs(p, arr, 1)

\* query_dist_from_line_points, lines 196-209
query_dist_from_line_points(p, arr) ==
    IF Len(arr) = 0 THEN np_inf
    ELSE IF p < arr[1] THEN Num(arr[1] - p)
    ELSE IF p >= arr[Len(arr)] THEN Num(p - arr[Len(arr)])
    ELSE scan_pairs(p, arr, 1)

\* a < b between a returned distance and a number
DistLess(a, b) == a.kind = "num" /\ a.val < b

RECURSIVE Insert(_, _)
Insert(s, x) ==
    IF Len(s) = 0 THEN <<x>>
    ELSE IF x < s[1] THEN <<x>> \o s
    ELSE <<s[1]>> \o Insert(Tail(s), x)

RECURSIVE Sorted(_)
\* sorted(list) and list.sort()
Sorted(s) == IF Len(s) = 0 THEN <<>> ELSE Insert(Sorted(Tail(s)), s[1])

(***************************************************************************)
(* The tied-node registry of assign_leaders: tied_nodes, a defaultdict     *)
(* whose entries keep their insertion order.  An entry holds a list of     *)
(* node ids (is_list) or, after line 113, one bare node id (items[1]).     *)
(***************************************************************************)
RegHas(reg, w) == \E i \in 1..Len(reg) : reg[i].key = w

RegIdx(reg, w) == CHOOSE i \in 1..Len(reg) : reg[i].key = w

\* tied_nodes[w] = value
RegAssign(reg, w, is_list, items) ==
    IF RegHas(reg, w)
    THEN [reg EXCEPT ![RegIdx(reg, w)] = [key |-> w, is_list |-> is_list, items |-> items]]
    ELSE Append(reg, [key |-> w, is_list |-> is_list, items |-> items])

\* tied_nodes[w] of a defaultdict(list): a missing key is created empty
RegTouch(reg, w) == IF RegHas(reg, w) THEN reg ELSE RegAssign(reg, w, TRUE, <<>>)

RegEntry(reg, w) == reg[RegIdx(reg, w)]

RECURSIVE first_module(_, _, _)
first_module(module, mods, k) ==
    IF k > Len(mods) THEN [found |-> FALSE, flags |-> <<>>]
    ELSE IF mods[k][1] = module THEN [found |-> TRUE, flags |-> mods[k][2]]
    ELSE first_module(module, mods, k + 1)

\* UFOPruningStrategy.find_module on the pre_modules of one edge
find_module(module, mods) == first_module(module, mods, 1)

\* UFOPruningStrategy.manage_tied_branch: what it raises, what it stubs
manage_tied_branch(nodes, wall_id, wall_tie_idx, ww, p) ==
    IF ww.kind = "int" THEN [raised |-> "TypeError", stub_calls |-> <<>>]
    ELSE IF wall_id \notin DOMAIN ww.walls
         THEN [raised |-> "KeyError", stub_calls |-> <<>>]
    ELSE IF wall_tie_idx = Len(ww.walls[wall_id]) - 1
         THEN [raised |-> "none",
               stub_calls |-> <<[nodes |-> nodes,
                                 excess |-> ParamGet(p, "leader_excess_stub",
                                                     DefaultLeaderExcessStub)]>>]
    ELSE [raised |-> "AttributeError", stub_calls |-> <<>>]

RECURSIVE scan_ties(_, _, _, _, _, _)
RECURSIVE scan_edge(_, _, _, _, _, _, _)
RECURSIVE scan_managed(_, _, _, _, _, _, _)

\* line 115 has returned m, or raised
scan_managed(branch, k, reg, stubs, ww, p, m) ==
    IF m.raised # "none"
    THEN [raised |-> m.raised, reg |-> reg, stubs |-> stubs \o m.stub_calls]
    ELSE scan_ties(branch, k - 1, reg, stubs \o m.stub_calls, ww, p)

\* lines 109-115: tie_info of one edge; a Tie puts the bare node nodes[0] in
\* the registry and calls manage_tied_branch on nodes[nodes.index(edge[1]):]
scan_edge(branch, k, reg, stubs, ww, p, tie_info) ==
    IF ~tie_info.found THEN scan_ties(branch, k - 1, reg, stubs, ww, p)
    ELSE scan_managed(branch, k,
             RegAssign(reg, tie_info.flags[1], FALSE, <<branch.nodes[1]>>),
             stubs, ww, p,
             manage_tied_branch(SliceFrom(branch.nodes, k), tie_info.flags[1],
                                tie_info.flags[2], ww, p))

\* lines 108-115: the edges (nodes[i], nodes[i+1]) for i = len-2 down to 2,
\* here the internodes k = i + 1 counted from 1
scan_ties(branch, k, reg, stubs, ww, p) ==
    IF k < 3 THEN [raised |-> "none", reg |-> reg, stubs |-> stubs]
    ELSE scan_edge(branch, k, reg, stubs, ww, p,
                   find_module("Tie", branch.pre_modules[k]))

\* line 124: tied_nodes[wall_id].append(nodes[0])
append_mark(t, reg, wall_id, node) ==
    IF ~RegEntry(reg, wall_id).is_list
    THEN [t EXCEPT !.raised = "AttributeError"]
    ELSE [t EXCEPT !.reg = RegAssign(reg, wall_id, TRUE,
                               Append(RegEntry(reg, wall_id).items, node))]

\* lines 121-124: the Mark on the first internode
register_mark(t, mark, node) ==
    IF t.raised # "none" \/ ~mark.found THEN t
    ELSE append_mark(t, RegTouch(t.reg, mark.flags[1]), mark.flags[1], node)

\* lines 103-124: one generation-1 branch
register_branch(branch, reg, stubs, ww, p) ==
    register_mark(scan_ties(branch, Len(branch.nodes) - 1, reg, stubs, ww, p),
                  find_module("Mark", branch.pre_modules[1]), branch.nodes[1])

RECURSIVE register_branches(_, _, _, _, _, _, _)
RECURSIVE next_branch(_, _, _, _, _, _)

\* the loop goes on after a branch unless the branch raised
next_branch(r, tr, ids, trace, ww, p) ==
    IF r.raised # "none"
    THEN [raised |-> r.raised, reg |-> r.reg, stubs |-> r.stubs, trace |-> trace]
    ELSE register_branches(tr, Tail(ids), r.reg, r.stubs, Append(trace, r.reg), ww, p)

\* lines 102-124: the loop over first_gen_branches; trace keeps the registry
\* as it is after each branch that was processed to its end
register_branches(tr, ids, reg, stubs, trace, ww, p) ==
    IF Len(ids) = 0
    THEN [raised |-> "none", reg |-> reg, stubs |-> stubs, trace |-> trace]
    ELSE next_branch(register_branch(tr.branches[ids[1]], reg, stubs, ww, p),
                     tr, ids, trace, ww, p)

RECURSIVE capacity_check(_, _, _, _, _)
RECURSIVE check_wall(_, _, _, _, _)

\* lines 130-132: len(trunk_nodes) of one wire
check_wall(reg, wall_id, count, leaders_per_wall, is_full) ==
    IF ~RegEntry(reg, wall_id).is_list
    THEN [raised |-> "TypeError", reg |-> reg, is_full |-> is_full]
    ELSE capacity_check(reg, wall_id + 1, count, leaders_per_wall,
             is_full /\ ~(Len(RegEntry(reg, wall_id).items) < leaders_per_wall))

\* lines 128-132: is_full over range(self.wire_walls)
capacity_check(reg, wall_id, count, leaders_per_wall, is_full) ==
    IF wall_id >= count THEN [raised |-> "none", reg |-> reg, is_full |-> is_full]
    ELSE check_wall(RegTouch(reg, wall_id), wall_id, count, leaders_per_wall, is_full)

RECURSIVE build_wall_spacings(_, _, _)
\* lines 148-151: the list comprehension subscripts the method
\* root_nodes.index, which raises for the first registered node; iterating
\* a bare node id raises as well
build_wall_spacings(reg, k, acc) ==
    IF k > Len(reg) THEN [raised |-> "none", wall_spacings |-> acc]
    ELSE IF ~reg[k].is_list \/ Len(reg[k].items) > 0
         THEN [raised |-> "TypeError", wall_spacings |-> acc]
    ELSE build_wall_spacings(reg, k + 1,
             Append(acc, [key |-> reg[k].key, spacings |-> Sorted(<<>>)]))

\* spacing < best_spacing between two returned distances
DistBelow(a, b) ==
    a.kind = "num" /\ (b.kind = "inf" \/ (b.kind = "num" /\ a.val < b.val))

NoBest == [found |-> FALSE, spacing |-> np_inf, idx |-> 0, raised |-> "none"]

RECURSIVE best_wall(_, _, _, _, _, _)
RECURSIVE rate_wall(_, _, _, _, _, _, _)

\* rate_wall without the test of the spacing
rate_wall_no_spacing(ws, k, cum_dist, leaders_per_wall, desired_spacing, best, spacing) ==
    IF spacing.kind = "None" THEN [best EXCEPT !.raised = "TypeError"]
    ELSE IF ~best.found \/ DistBelow(spacing, best.spacing)
    THEN best_wall(ws, k + 1, cum_dist, leaders_per_wall, desired_spacing,
                   [best EXCEPT !.found = TRUE, !.spacing = spacing, !.idx = k])
    ELSE best_wall(ws, k + 1, cum_dist, leaders_per_wall, desired_spacing, best)

\* rate_wall that keeps the wire with the largest spacing
rate_wall_prefers_far(ws, k, cum_dist, leaders_per_wall, desired_spacing, best, spacing) ==
    IF spacing.kind = "None" THEN [best EXCEPT !.raised = "TypeError"]
    ELSE IF DistLess(spacing, desired_spacing)
    THEN best_wall(ws, k + 1, cum_dist, leaders_per_wall, desired_spacing, best)
    ELSE IF ~best.found \/ DistBelow(best.spacing, spacing)
    THEN best_wall(ws, k + 1, cum_dist, leaders_per_wall, desired_spacing,
                   [best EXCEPT !.found = TRUE, !.spacing = spacing, !.idx = k])
    ELSE best_wall(ws, k + 1, cum_dist, leaders_per_wall, desired_spacing, best)

\* lines 163-168: the spacing of one wire against the floor and the best so far
rate_wall(ws, k, cum_dist, leaders_per_wall, desired_spacing, best, spacing) ==
    IF spacing.kind = "None" THEN [best EXCEPT !.raised = "TypeError"]
    ELSE IF DistLess(spacing, desired_spacing)
    THEN best_wall(ws, k + 1, cum_dist, leaders_per_wall, desired_spacing, best)
    ELSE IF ~best.found \/ DistBelow(spacing, best.spacing)
    THEN best_wall(ws, k + 1, cum_dist, leaders_per_wall, desired_spacing,
                   [best EXCEPT !.found = TRUE, !.spacing = spacing, !.idx = k])
    ELSE best_wall(ws, k + 1, cum_dist, leaders_per_wall, desired_spacing, best)

\* best_wall without the test of the quota
best_wall_no_capacity(ws, k, cum_dist, leaders_per_wall, desired_spacing, best) ==
    IF k > Len(ws) THEN best
    ELSE rate_wall(ws, k, cum_dist, leaders_per_wall, desired_spacing, best,
                   query_dist_from_line_points(cum_dist, ws[k].spacings))

\* lines 158-168: the wire chosen for one candidate
best_wall(ws, k, cum_dist, leaders_per_wall, desired_spacing, best) ==
    IF k > Len(ws) THEN best
    ELSE IF Len(ws[k].spacings) >= leaders_per_wall
         THEN best_wall(ws, k + 1, cum_dist, leaders_per_wall, desired_spacing, best)
    ELSE rate_wall(ws, k, cum_dist, leaders_per_wall, desired_spacing, best,
                   query_dist_from_line_points(cum_dist, ws[k].spacings))

RECURSIVE greedy_pass(_, _, _, _, _, _, _)
RECURSIVE place(_, _, _, _, _, _, _, _)

\* place that adds the candidate to every wire under its quota
place_on_every_wire(root_nodes, cum_dists, k, ws, steps, all_tied_nodes, p, best) ==
    IF best.raised # "none"
    THEN [raised |-> best.raised, wall_spacings |-> ws, steps |-> steps]
    ELSE IF ~best.found
    THEN greedy_pass(root_nodes, cum_dists, k + 1, ws,
             Append(steps, [node |-> root_nodes[k + 1], cum_dist |-> cum_dists[k],
                            wall_id |-> -1, before |-> ws]),
             all_tied_nodes, p)
    ELSE greedy_pass(root_nodes, cum_dists, k + 1,
             [j \in 1..Len(ws) |->
                 IF Len(ws[j].spacings) < ParamGet(p, "leaders_per_wall",
                                                   DefaultLeadersPerWall)
                 THEN [ws[j] EXCEPT !.spacings = Sorted(Append(@, cum_dists[k]))]
                 ELSE ws[j]],
             Append(steps, [node |-> root_nodes[k + 1], cum_dist |-> cum_dists[k],
                            wall_id |-> ws[best.idx].key, before |-> ws]),
             all_tied_nodes, p)

\* place that appends the candidate without sorting the list again
place_unsorted(root_nodes, cum_dists, k, ws, steps, all_tied_nodes, p, best) ==
    IF best.raised # "none"
    THEN [raised |-> best.raised, wall_spacings |-> ws, steps |-> steps]
    ELSE IF ~best.found
    THEN greedy_pass(root_nodes, cum_dists, k + 1, ws,
             Append(steps, [node |-> root_nodes[k + 1], cum_dist |-> cum_dists[k],
                            wall_id |-> -1, before |-> ws]),
             all_tied_nodes, p)
    ELSE greedy_pass(root_nodes, cum_dists, k + 1,
             [ws EXCEPT ![best.idx].spacings = Append(@, cum_dists[k])],
             Append(steps, [node |-> root_nodes[k + 1], cum_dist |-> cum_dists[k],
                            wall_id |-> ws[best.idx].key, before |-> ws]),
             all_tied_nodes, p)

\* lines 170-174: the candidate goes to the best wire, if there is one;
\* steps keeps, for every candidate that is not skipped, the wire lists
\* before it and the wire it went to (-1 for none)
place(root_nodes, cum_dists, k, ws, steps, all_tied_nodes, p, best) ==
    IF best.raised # "none"
    THEN [raised |-> best.raised, wall_spacings |-> ws, steps |-> steps]
    ELSE IF ~best.found
    THEN greedy_pass(root_nodes, cum_dists, k + 1, ws,
             Append(steps, [node |-> root_nodes[k + 1], cum_dist |-> cum_dists[k],
                            wall_id |-> -1, before |-> ws]),
             all_tied_nodes, p)
    ELSE greedy_pass(root_nodes, cum_dists, k + 1,
             [ws EXCEPT ![best.idx].spacings = Sorted(Append(@, cum_dists[k]))],
             Append(steps, [node |-> root_nodes[k + 1], cum_dist |-> cum_dists[k],
                            wall_id |-> ws[best.idx].key, before |-> ws]),
             all_tied_nodes, p)

\* greedy_pass without the test against trunk_bare_dist
greedy_pass_no_bare_dist(root_nodes, cum_dists, k, ws, steps, all_tied_nodes, p) ==
    IF k > Len(root_nodes) - 1 \/ k > Len(cum_dists)
    THEN [raised |-> "none", wall_spacings |-> ws, steps |-> steps]
    ELSE IF root_nodes[k + 1] \in all_tied_nodes
    THEN greedy_pass(root_nodes, cum_dists, k + 1, ws, steps, all_tied_nodes, p)
    ELSE place(root_nodes, cum_dists, k, ws, steps, all_tied_nodes, p,
               best_wall(ws, 1, cum_dists[k],
                         ParamGet(p, "leaders_per_wall", DefaultLeadersPerWall),
                         ParamGet(p, "leader_spacing", DefaultLeaderSpacing),
                         NoBest))

\* lines 154-174: the loop over zip(root_nodes[1:], cum_dists)
greedy_pass(root_nodes, cum_dists, k, ws, steps, all_tied_nodes, p) ==
    IF k > Len(root_nodes) - 1 \/ k > Len(cum_dists)
    THEN [raised |-> "none", wall_spacings |-> ws, steps |-> steps]
    ELSE IF root_nodes[k + 1] \in all_tied_nodes
            \/ cum_dists[k] < ParamGet(p, "trunk_bare_dist", DefaultTrunkBareDist)
    THEN greedy_pass(root_nodes, cum_dists, k + 1, ws, steps, all_tied_nodes, p)
    ELSE place(root_nodes, cum_dists, k, ws, steps, all_tied_nodes, p,
               best_wall(ws, 1, cum_dists[k],
                         ParamGet(p, "leaders_per_wall", DefaultLeadersPerWall),
                         ParamGet(p, "leader_spacing", DefaultLeaderSpacing),
                         NoBest))

\* the record of an assign_leaders call that has not run or did nothing
LeadersIdle ==
    [raised |-> "none", stub_calls |-> <<>>, reg_trace |-> <<>>, reg |-> <<>>,
     checked |-> FALSE, is_full |-> FALSE, greedy |-> FALSE,
     cum_dists |-> <<>>, wall_spacings |-> <<>>, steps |-> <<>>]

\* line 151: all_tied_nodes
all_tied_nodes_of(reg) == UNION {Range(reg[i].items) : i \in 1..Len(reg)}

\* the greedy pass has ended with g
fill_done(seen, cum_dists, g) ==
    [seen EXCEPT !.raised = g.raised, !.greedy = TRUE, !.cum_dists = cum_dists,
                 !.wall_spacings = g.wall_spacings, !.steps = g.steps]

\* lines 146-174: wall_spacings has been built, or has raised
fill_built(seen, root_nodes, cum_dists, built, p) ==
    IF built.raised # "none"
    THEN [seen EXCEPT !.raised = built.raised, !.cum_dists = cum_dists]
    ELSE fill_done(seen, cum_dists,
             greedy_pass(root_nodes, cum_dists, 1, built.wall_spacings, <<>>,
                         all_tied_nodes_of(seen.reg), p))

\* lines 138-143: the trunk and cum_dists = np.cumsum(pts[:-1] - pts[1:])
fill_from(seen, tr, p, found) ==
    IF ~unique_ok(found) THEN [seen EXCEPT !.raised = "AssertionError"]
    ELSE fill_built(seen, tr.branches[found[1]].nodes,
                    CumSum(Flatten(RowDiffs(tr.branches[found[1]].points))),
                    build_wall_spacings(seen.reg, 1, <<>>), p)

\* lines 136-174: there is room on some wire
fill_walls(seen, tr, p) == fill_from(seen, tr, p, search_branches(tr, 0))

\* after_checked that goes on to the wires whatever is_full says
after_checked_ignores_full(seen, tr, p) ==
    IF seen.raised # "none" THEN seen
    ELSE fill_walls(seen, tr, p)

\* line 136: if not is_full
after_checked(seen, tr, p) ==
    IF seen.raised # "none" \/ seen.is_full THEN seen
    ELSE fill_walls(seen, tr, p)

\* lines 126-132 have ended with c
after_capacity(scanned, c, tr, p) ==
    after_checked([scanned EXCEPT !.reg = c.reg, !.raised = c.raised,
                      !.checked = (c.raised = "none"), !.is_full = c.is_full],
                  tr, p)

\* line 129: range(self.wire_walls) needs the count
after_scanned(scanned, tr, ww, p) ==
    IF scanned.raised # "none" THEN scanned
    ELSE IF ww.kind # "int" THEN [scanned EXCEPT !.raised = "TypeError"]
    ELSE after_capacity(scanned,
             capacity_check(scanned.reg, 0, ww.count,
                 ParamGet(p, "leaders_per_wall", DefaultLeadersPerWall), TRUE),
             tr, p)

\* lines 102-124 have ended with r
after_scan(r, tr, ww, p) ==
    after_scanned([LeadersIdle EXCEPT !.raised = r.raised, !.stub_calls = r.stubs,
                      !.reg_trace = r.trace, !.reg = r.reg],
                  tr, ww, p)

\* UFOPruningStrategy.assign_leaders
assign_leaders(tr, ww, p) ==
    after_scan(register_branches(tr, search_branches(tr, 1), <<>>, <<>>, <<>>, ww, p),
               tr, ww, p)

\* UFOPruningStrategy.examine_leaders; rub_off_trunk_buds does nothing
examine_leaders(tr, ww, p) ==
    IF ~unique_ok(search_branches(tr, 0))
    THEN [LeadersIdle EXCEPT !.raised = "AssertionError"]
    ELSE assign_leaders(tr, ww, p)

\* line 37 has ended with e
after_leaders(t, ntt, e) ==
    [called |-> TRUE, before |-> ntt, raised |-> e.raised, trunk |-> t,
     examined |-> TRUE, leaders |-> e]

\* line 36 has ended with t
after_trunk(t, ntt, tr, ww, p) ==
    IF t.raised # "none"
    THEN [called |-> TRUE, before |-> ntt, raised |-> t.raised, trunk |-> t,
          examined |-> FALSE, leaders |-> LeadersIdle]
    ELSE after_leaders(t, ntt, examine_leaders(tr, ww, p))

\* UFOPruningStrategy.apply_strategy: the record of one call
apply_strategy(ntt, targets, tr, ww, p, ext) ==
    after_trunk(tie_down_trunk(ntt, targets, tr, ext), ntt, tr, ww, p)

(***************************************************************************)
(* The controller and the graphs it is run on.                             *)
(***************************************************************************)
Origin == <<0, 0, 0>>

\* growth of the trunk by one internode: none, or 30 tenths along a diagonal
TrunkSteps == {<<0, 0, 0>>, <<-20, -20, -10>>}

\* what target.get_point_sequence_dist and the curve fit may return
ExtInputs ==
    [dist_to_target : {0, 30}, off : {<<0, 0, 0>>, <<0, 0, 10>>},
     success : BOOLEAN, curve_len : {20, 45}]

\* self.wire_walls given as a count, or as a mapping to sequences of wires
IntWalls(n) == [kind |-> "int", count |-> n, walls |-> <<>>]

MapWalls(wires) == [kind |-> "mapping", count |-> 0, walls |-> [w \in {0} |-> wires]]

\* the configurations the trunk is grown under: wire_walls and params
Configs ==
    { [wire_walls |-> IntWalls(2), params |-> <<>>],
      [wire_walls |-> IntWalls(1),
       params |-> [leaders_per_wall |-> 2, trunk_bare_dist |-> 20]],
      [wire_walls |-> IntWalls(1),
       params |-> [leader_spacing |-> 15, trunk_bare_dist |-> 0]] }

\* the configurations the leaders are annotated under
LeaderConfigs ==
    { [wire_walls |-> IntWalls(1), params |-> [leaders_per_wall |-> 1]],
      [wire_walls |-> IntWalls(1), params |-> [leaders_per_wall |-> 2]],
      [wire_walls |-> MapWalls(<<201>>), params |-> [leaders_per_wall |-> 1]],
      [wire_walls |-> MapWalls(<<201, 202>>), params |-> [leaders_per_wall |-> 1]] }

\* the numbers of nodes a leader is given
LeaderSizes == {2, 4}

Targets(n) == [i \in 1..n |-> 100 + i]

Trunk(points, flags) ==
    [generation |-> 0, nodes |-> [i \in 1..Len(points) |-> i - 1],
     points |-> points, flags |-> flags,
     pre_modules |-> [i \in 1..Len(flags) |-> <<>>]]

\* a generation-1 branch of n nodes attached to a trunk node; its own nodes
\* are numbered from 100 * b
Leader(b, attach, n) ==
    [generation |-> 1, nodes |-> [i \in 1..n |-> IF i = 1 THEN attach ELSE 100 * b + i],
     points |-> <<>>, flags |-> [i \in 1..(n - 1) |-> FALSE],
     pre_modules |-> [i \in 1..(n - 1) |-> <<>>]]

\* the answers with which a tie only needs a tail of positive length: the
\* target projects onto the tail's first point and the fit converges
FavourableExt ==
    {ext \in ExtInputs :
        ext.success /\ ext.dist_to_target = 0 /\ ext.off = <<0, 0, 0>>}

NoTick ==
    [called |-> FALSE, before |-> 0, raised |-> "none", trunk |-> TrunkIdle(0),
     examined |-> FALSE, leaders |-> LeadersIdle, favourable |-> FALSE]

QueryIdle == pt = 0 /\ sorted_array = <<>> /\ result = Unset

\* what a change of the graph between two ticks leaves alone
ControllerFrame == <<trunk_targets, wire_walls, params, next_trunk_target,
                     leaders_assigned, tied, waited, pt, sorted_array, result>>

\* UFOPruningStrategy.__init__ and set_tree
Init ==
    /\ trunk_targets = Targets(MaxTargets)
    /\ \E c \in Configs : wire_walls = c.wire_walls /\ params = c.params
    /\ next_trunk_target = 0
    /\ leaders_assigned = FALSE
    /\ tree \in {[branches |-> <<Trunk(<<Origin, step>>, <<FALSE>>), Leader(2, 0, 2)>>] :
                     step \in TrunkSteps}
    /\ tick = NoTick
    /\ tied = <<>>
    /\ waited = FALSE
    /\ QueryIdle

\* the plant grows: one more trunk node
GrowTrunk ==
    /\ Len(tree.branches[1].nodes) < MaxTrunkNodes
    /\ \E step \in TrunkSteps :
         LET b == tree.branches[1]
             last == b.points[Len(b.points)]
         IN  tree' = [tree EXCEPT !.branches[1] =
                 [b EXCEPT !.nodes = Append(@, Len(b.nodes)),
                           !.points = Append(@, <<last[1] + step[1], last[2] + step[2],
                                                  last[3] + step[3]>>),
                           !.flags = Append(@, FALSE),
                           !.pre_modules = Append(@, <<>>)]]
    /\ tick' = NoTick
    /\ UNCHANGED ControllerFrame

\* the graph's owner records a tie: Flags with 1 in an internode's post_modules
FlagInternode ==
    /\ \E k \in 1..Len(tree.branches[1].flags) :
         /\ ~tree.branches[1].flags[k]
         /\ tree' = [tree EXCEPT !.branches[1].flags[k] = TRUE]
    /\ tick' = NoTick
    /\ UNCHANGED ControllerFrame

\* the graph is handed over malformed, or repaired: the trunk loses or regains
\* generation 0, a leader is tagged generation 0 or 1 (never so that a leader
\* is the only generation-0 branch)
Retag ==
    /\ \E b \in 1..Len(tree.branches) :
         LET g == tree.branches[b].generation
             others == {c \in 1..Len(tree.branches) :
                           c # b /\ tree.branches[c].generation = 0}
         IN  /\ IF b = 1 THEN others = {} ELSE tree.branches[1].generation = 0
             /\ tree' = [tree EXCEPT !.branches[b].generation =
                            IF b = 1 THEN (IF g = 0 THEN 2 ELSE 0)
                            ELSE (IF g = 1 THEN 0 ELSE 1)]
    /\ tick' = NoTick
    /\ UNCHANGED ControllerFrame

\* the call got to the length guard of line 62 and the guard failed
Short(t) ==
    /\ t.target # NoTarget
    /\ t.raised = "none"
    /\ ~(t.length > t.dist_to_target + t.offset)

\* the record of a call, with whether its answers were favourable
Logged(r, ext) ==
    [called |-> r.called, before |-> r.before, raised |-> r.raised,
     trunk |-> r.trunk, examined |-> r.examined, leaders |-> r.leaders,
     favourable |-> ext \in FavourableExt]

\* the effects of a call: the counter, the record, the targets tied
Commit(r, ext) ==
    /\ tick' = Logged(r, ext)
    /\ next_trunk_target' = r.trunk.next_trunk_target
    /\ tied' = tied \o [i \in 1..Len(r.trunk.guide_calls) |-> r.trunk.target]
    /\ waited' = (waited \/ Short(r.trunk))

\* one apply_strategy call in which the target and the fit answer ext
Tick(ext) ==
    /\ Commit(apply_strategy(next_trunk_target, trunk_targets, tree,
                             wire_walls, params, ext), ext)
    /\ UNCHANGED <<trunk_targets, wire_walls, params, leaders_assigned, tree,
                   pt, sorted_array, result>>

\* one tick: apply_strategy runs to its end or to the exception it raises
ApplyStrategy == \E ext \in ExtInputs : Tick(ext)

Next == GrowTrunk \/ FlagInternode \/ Retag \/ ApplyStrategy

Spec == Init /\ [][Next]_vars

(***************************************************************************)
(* Ticks that go on for ever.  apply_strategy runs to its end within a     *)
(* tick and nothing in the source schedules the ticks, so no step is       *)
(* forced: what the driver and the collaborators do in the long run is a   *)
(* hypothesis of the property.                                             *)
(***************************************************************************)
\* the graph has one trunk, whose untied tail has a positive length and a
\* point for the tangent of line 64
TrunkReady ==
    /\ Len(search_branches(tree, 0)) = 1
    /\ LET b == tree.branches[search_branches(tree, 0)[1]]
           tail == SliceFrom(b.nodes, last_tie_idx_of(b.flags))
           pts == SliceFrom(b.points, last_tie_idx_of(b.flags))
       IN  /\ Len(tail) >= 2
           /\ cumul_lens_of(pts)[Len(pts) - 1] > 0
           /\ (tail[1] = 0) => (Len(pts) >= 3)

InitLive == Init /\ params = <<>>

SpecLive == InitLive /\ [][Next]_vars

(***************************************************************************)
(* Leaders and their annotations: the graphs assign_leaders is run on.     *)
(***************************************************************************)
Mark(w) == <<"Mark", <<w>>>>

Tie(w, i) == <<"Tie", <<w, i>>>>

InitLeaders ==
    /\ trunk_targets = Targets(1)
    /\ \E c \in LeaderConfigs : wire_walls = c.wire_walls /\ params = c.params
    /\ next_trunk_target = 0
    /\ leaders_assigned = FALSE
    /\ tree = [branches |->
                 <<Trunk(<<Origin, <<-20, -20, -10>>, <<-40, -40, -20>>>>,
                         <<FALSE, FALSE>>)>>]
    /\ tick = NoTick
    /\ tied = <<>>
    /\ waited = FALSE
    /\ QueryIdle

\* a leader is found on the next trunk node
AddLeader ==
    /\ Len(tree.branches) < 1 + MaxLeaders
    /\ Len(tree.branches) - 1 < Len(tree.branches[1].nodes)
    /\ \E n \in LeaderSizes :
         tree' = [tree EXCEPT !.branches =
                     Append(@, Leader(Len(tree.branches) + 1,
                                      tree.branches[1].nodes[Len(tree.branches)], n))]
    /\ tick' = NoTick
    /\ UNCHANGED ControllerFrame

\* the graph's owner marks a leader for wire 0 on its first internode, or
\* ties its first or its last internode to the first wire of wall 0
Annotate ==
    /\ \E b \in 2..Len(tree.branches) :
       \E k \in {1, Len(tree.branches[b].pre_modules)} :
       \E m \in (IF k = 1 THEN {Mark(0), Tie(0, 0)} ELSE {Tie(0, 0)}) :
         /\ tree.branches[b].pre_modules[k] = <<>>
         /\ tree' = [tree EXCEPT !.branches[b].pre_modules[k] = <<m>>]
    /\ tick' = NoTick
    /\ UNCHANGED ControllerFrame

NextLeaders == AddLeader \/ Annotate \/ ApplyStrategy

SpecLeaders == InitLeaders /\ [][NextLeaders]_vars

(***************************************************************************)
(* The greedy pass on its own: no trunk target is left, no leader is       *)
(* annotated, and the trunk grows in straight or turning steps.            *)
(***************************************************************************)
\* the steps a trunk is grown by
BendSteps == {<<0, 0, 0>>, <<-20, -20, -10>>, <<-20, 20, -10>>}

\* the configurations the greedy pass is run under
GreedyConfigs ==
    { [wire_walls |-> IntWalls(2), params |-> <<>>],
      [wire_walls |-> IntWalls(2),
       params |-> [leader_spacing |-> 15, trunk_bare_dist |-> 20]],
      [wire_walls |-> IntWalls(1),
       params |-> [leader_spacing |-> 10, trunk_bare_dist |-> 0]],
      [wire_walls |-> IntWalls(1),
       params |-> [leaders_per_wall |-> 1, trunk_bare_dist |-> 20]] }

InitGreedy ==
    /\ trunk_targets = Targets(0)
    /\ \E c \in GreedyConfigs : wire_walls = c.wire_walls /\ params = c.params
    /\ next_trunk_target = 0
    /\ leaders_assigned = FALSE
    /\ tree \in {[branches |-> <<Trunk(<<Origin, <<step[1], step[2], step[3]>>>>,
                                       <<FALSE>>)>>] : step \in BendSteps}
    /\ tick = NoTick
    /\ tied = <<>>
    /\ waited = FALSE
    /\ QueryIdle

\* the plant grows: one more trunk node, in any of the directions
GrowBent ==
    /\ Len(tree.branches[1].nodes) < MaxTrunkNodes
    /\ \E step \in BendSteps :
         LET b == tree.branches[1]
             last == b.points[Len(b.points)]
         IN  tree' = [tree EXCEPT !.branches[1] =
                 [b EXCEPT !.nodes = Append(@, Len(b.nodes)),
                           !.points = Append(@, <<last[1] + step[1], last[2] + step[2],
                                                  last[3] + step[3]>>),
                           !.flags = Append(@, FALSE),
                           !.pre_modules = Append(@, <<>>)]]
    /\ tick' = NoTick
    /\ UNCHANGED ControllerFrame

NextGreedy == GrowBent \/ ApplyStrategy

SpecGreedy == InitGreedy /\ [][NextGreedy]_vars

(***************************************************************************)
(* query_dist_from_line_points on its own.                                 *)
(***************************************************************************)
Coords == (-MaxCoord)..MaxCoord

IsAscending(s) == \A i \in 1..(Len(s) - 1) : s[i] <= s[i + 1]

AscendingLists ==
    UNION {{s \in [1..n -> Coords] : IsAscending(s)} : n \in 0..MaxArrayLen}

Reflected(s) == Sorted([i \in 1..Len(s) |-> -s[i]])

InitQuery ==
    /\ pt \in Coords
    /\ sorted_array \in AscendingLists
    /\ result = Unset
    /\ trunk_targets = <<>>
    /\ wire_walls = IntWalls(1)
    /\ params = <<>>
    /\ next_trunk_target = 0
    /\ leaders_assigned = FALSE
    /\ tree = [branches |-> <<Trunk(<<Origin, Origin>>, <<FALSE>>)>>]
    /\ tick = NoTick
    /\ tied = <<>>
    /\ waited = FALSE

GraphFrame == <<trunk_targets, wire_walls, params, next_trunk_target,
                leaders_assigned, tree, tick, tied, waited>>

Query ==
    /\ result' = query_dist_from_line_points(pt, sorted_array)
    /\ UNCHANGED <<pt, sorted_array>>
    /\ UNCHANGED GraphFrame

\* the caller mirrors the position and the list
Reflect ==
    /\ pt' = -pt
    /\ sorted_array' = Reflected(sorted_array)
    /\ result' = Unset
    /\ UNCHANGED GraphFrame

NextQuery == Query \/ Reflect

SpecQuery == InitQuery /\ [][NextQuery]_vars

(***************************************************************************)
(* Properties.                                                             *)
(***************************************************************************)
LeadersPerWall == ParamGet(params, "leaders_per_wall", DefaultLeadersPerWall)

LeaderSpacing == ParamGet(params, "leader_spacing", DefaultLeaderSpacing)

GuideCalls == tick.trunk.guide_calls

StubCalls == tick.leaders.stub_calls

\* the list a wire has in a snapshot of wall_spacings
SpacingsOf(ws, w) == ws[CHOOSE k \in 1..Len(ws) : ws[k].key = w].spacings

\* C1: over any sequence of ticks and growth, next_trunk_target never
\* decreases, moves by at most one per tick and by exactly one exactly when a
\* tie succeeded, stays within 0..len(trunk_targets); the target attempted in
\* a tick is trunk_targets[next_trunk_target], and the targets tied so far are
\* the first next_trunk_target targets in their order.
C1_TargetsInOrder ==
    [][ /\ next_trunk_target' \in {next_trunk_target, next_trunk_target + 1}
        /\ (next_trunk_target' = next_trunk_target + 1)
             <=> (tick'.called /\ tick'.trunk.success
                  /\ Len(tick'.trunk.guide_calls) = 1)
        /\ next_trunk_target' \in 0..Len(trunk_targets)
        /\ (tick'.called /\ tick'.trunk.target # NoTarget)
             => /\ next_trunk_target < Len(trunk_targets)
                /\ tick'.trunk.target = trunk_targets[next_trunk_target + 1]
        /\ tied' = SubSeq(trunk_targets, 1, next_trunk_target') ]_vars

\* the second target has been tied in a tick, after the first
C1_Witness ==
    /\ tick.called /\ Len(GuideCalls) = 1
    /\ next_trunk_target = 2
    /\ tick.trunk.target = trunk_targets[2]
    /\ tied = <<trunk_targets[1], trunk_targets[2]>>

\* C3: next_trunk_target advances in a tick only if the tail is longer than
\* the distance to the target plus the distance from the tail's start to the
\* projected point and the fit succeeded; the advance and the single
\* set_guide_on_nodes call come together; when the length guard fails there
\* is no fit, no graph mutation and no advance.
C3_AdvanceOnlyWhenReachable ==
    tick.called =>
      /\ (next_trunk_target # tick.before) =>
            /\ tick.trunk.length > tick.trunk.dist_to_target + tick.trunk.offset
            /\ tick.trunk.fit_attempted /\ tick.trunk.success
            /\ Len(GuideCalls) = 1
      /\ (Len(GuideCalls) > 0) => (next_trunk_target = tick.before + 1)
      /\ (/\ tick.trunk.target # NoTarget
          /\ ~(tick.trunk.length > tick.trunk.dist_to_target + tick.trunk.offset))
            => /\ ~tick.trunk.fit_attempted
               /\ GuideCalls = <<>>
               /\ next_trunk_target = tick.before

\* a tick that tied: the guard held, the fit succeeded, one guide was set
C3_Witness ==
    /\ tick.called /\ next_trunk_target = tick.before + 1
    /\ Len(GuideCalls) = 1
    /\ tick.trunk.length > tick.trunk.dist_to_target + tick.trunk.offset
    /\ tick.trunk.offset > 0 /\ tick.trunk.dist_to_target > 0

\* C4: when the curve fit does not converge, tie_down_trunk sets no guide,
\* leaves next_trunk_target alone and raises nothing, and the same
\* apply_strategy call goes on to examine the leaders.
C4_FitFailureSkipsTie ==
    (tick.called /\ tick.trunk.fit_attempted /\ ~tick.trunk.success) =>
      /\ GuideCalls = <<>>
      /\ next_trunk_target = tick.before
      /\ tick.trunk.raised = "none"
      /\ tick.examined

\* a tick whose fit did not converge and whose leaders were examined
C4_Witness ==
    /\ tick.called /\ tick.trunk.fit_attempted /\ ~tick.trunk.success
    /\ tick.examined /\ tick.leaders.checked

\* arc length of the trunk's tail after its last tied internode
UntiedTailLength ==
    LET b == tree.branches[1]
        pts == SliceFrom(b.points, last_tie_idx_of(b.flags))
    IN  IF Len(pts) < 2 THEN 0
        ELSE CumSum([k \in 1..(Len(pts) - 1) |-> Norm(VSub(pts[k], pts[k + 1]))])[Len(pts) - 1]

\* C5: for a trunk whose untied tail has zero arc length (a single node after
\* a tied last internode, or coincident points) tie_down_trunk sets no guide,
\* does not advance next_trunk_target and returns normally.
C5_ZeroTailNoAction ==
    (/\ tick.called
     /\ tick.before < Len(trunk_targets)
     /\ Len(search_branches(tree, 0)) = 1
     /\ UntiedTailLength = 0)
      => /\ tick.trunk.raised = "none"
         /\ GuideCalls = <<>>
         /\ next_trunk_target = tick.before

\* C10: when the graph does not have exactly one generation-0 branch,
\* apply_strategy fails with the uniqueness assertion in every controller
\* state, before any graph mutation and any change of next_trunk_target.
C10_MalformedGraphAsserts ==
    (tick.called /\ Len(search_branches(tree, 0)) # 1) =>
      /\ tick.raised = "AssertionError"
      /\ GuideCalls = <<>>
      /\ StubCalls = <<>>
      /\ next_trunk_target = tick.before
      /\ tied = SubSeq(trunk_targets, 1, tick.before)

\* two trunks, while a target is still to be tied on a trunk long enough
C10_Witness ==
    /\ tick.called /\ tick.raised = "AssertionError"
    /\ Len(search_branches(tree, 0)) = 2
    /\ tick.before < Len(trunk_targets)
    /\ UntiedTailLength > 0

\* C7: in the greedy pass no candidate is inserted into a wire whose list
\* already holds leaders_per_wall positions, so at the end each wire's list
\* is no longer than the larger of its length at the start and the quota.
C7_NoInsertAtCapacity ==
    (tick.called /\ tick.leaders.greedy) =>
      LET steps == tick.leaders.steps
          final == tick.leaders.wall_spacings
          start == IF Len(steps) = 0 THEN final ELSE steps[1].before
      IN  /\ \A i \in 1..Len(steps) :
               steps[i].wall_id # -1 =>
                 Len(SpacingsOf(steps[i].before, steps[i].wall_id)) < LeadersPerWall
          /\ \A k \in 1..Len(final) :
               \/ Len(final[k].spacings) <= LeadersPerWall
               \/ Len(final[k].spacings) <= Len(start[k].spacings)

\* a candidate far enough from every position of a wire is left out because
\* the wire is at its quota
C7_Witness ==
    /\ tick.called /\ tick.leaders.greedy
    /\ \E i \in 1..Len(tick.leaders.steps) :
         LET st == tick.leaders.steps[i]
         IN  /\ st.wall_id = -1
             /\ \E k \in 1..Len(st.before) :
                  /\ Len(st.before[k].spacings) = LeadersPerWall
                  /\ \A j \in 1..Len(st.before[k].spacings) :
                       Abs(st.cum_dist - st.before[k].spacings[j]) >= LeaderSpacing

\* C8: every position inserted in the greedy pass is at least leader_spacing
\* away from every position its wire holds at that moment, so at the end of
\* the tick every position added is that far from every other on its wire.
C8_InsertedRespectSpacing ==
    (tick.called /\ tick.leaders.greedy) =>
      LET steps == tick.leaders.steps
          final == tick.leaders.wall_spacings
      IN  /\ \A i \in 1..Len(steps) :
               steps[i].wall_id # -1 =>
                 LET held == SpacingsOf(steps[i].before, steps[i].wall_id)
                 IN  \A j \in 1..Len(held) :
                       Abs(steps[i].cum_dist - held[j]) >= LeaderSpacing
          /\ \A k \in 1..Len(final) :
               LET added == {steps[i].cum_dist : i \in {j \in 1..Len(steps) :
                                 steps[j].wall_id = final[k].key}}
                   list == final[k].spacings
               IN  \A a, b \in 1..Len(list) :
                     (a # b /\ list[a] \in added)
                       => Abs(list[a] - list[b]) >= LeaderSpacing

\* a candidate joins a wire that already holds a position, and another one
\* is left out although a wire under its quota is there
C8_Witness ==
    /\ tick.called /\ tick.leaders.greedy
    /\ \E i \in 1..Len(tick.leaders.steps) :
         LET st == tick.leaders.steps[i]
         IN  st.wall_id # -1 /\ Len(SpacingsOf(st.before, st.wall_id)) > 0
    /\ \E i \in 1..Len(tick.leaders.steps) :
         LET st == tick.leaders.steps[i]
         IN  /\ st.wall_id = -1
             /\ \E k \in 1..Len(st.before) :
                  Len(st.before[k].spacings) < LeadersPerWall

\* the least |p - v| over the elements v of a non-empty list
NearestGap(p, arr) ==
    LET gaps == {Abs(p - arr[i]) : i \in 1..Len(arr)}
    IN  CHOOSE d \in gaps : \A e \in gaps : d <= e

\* C9: on an ascending list query_dist_from_line_points returns infinity for
\* the empty list and otherwise the least |p - v| over its elements, always
\* a value, and the same value for the mirrored position and list.
C9_NearestDistance ==
    result.kind # "unset" =>
      /\ (Len(sorted_array) = 0) => (result = np_inf)
      /\ (Len(sorted_array) > 0) => (result = Num(NearestGap(pt, sorted_array)))
      /\ (Len(sorted_array) = 1) => (result = Num(Abs(pt - sorted_array[1])))
      /\ result = query_dist_from_line_points(-pt, Reflected(sorted_array))

\* a position equal to a repeated last element, with a smaller element before
C9_Witness ==
    /\ result.kind = "num"
    /\ Len(sorted_array) = 3
    /\ sorted_array[1] < sorted_array[2]
    /\ sorted_array[2] = sorted_array[3]
    /\ pt = sorted_array[3]

\* the wires of the configuration
Wires == IF wire_walls.kind = "int" THEN 0..(wire_walls.count - 1)
         ELSE DOMAIN wire_walls.walls

\* a leader carries a Tie for wire w on an internode the scan reads or a Mark
\* for it on its first internode
RegistersOn(br, w) ==
    \/ \E k \in 3..Len(br.pre_modules) : \E j \in 1..Len(br.pre_modules[k]) :
         br.pre_modules[k][j][1] = "Tie" /\ br.pre_modules[k][j][2][1] = w
    \/ \E j \in 1..Len(br.pre_modules[1]) :
         br.pre_modules[1][j][1] = "Mark" /\ br.pre_modules[1][j][2][1] = w

AllWiresFull ==
    \A w \in Wires :
      Cardinality({b \in 1..Len(tree.branches) :
                     /\ tree.branches[b].generation = 1
                     /\ RegistersOn(tree.branches[b], w)}) >= LeadersPerWall

\* C2: once next_trunk_target equals len(trunk_targets) and every wire has
\* leaders_per_wall registered leaders, an apply_strategy call is a no-op: it
\* calls neither set_guide_on_nodes nor stub_branch, changes no counter and
\* raises nothing.
C2_TerminalTickIsNoOp ==
    (tick.called /\ tick.before = Len(trunk_targets) /\ AllWiresFull) =>
      /\ tick.raised = "none"
      /\ GuideCalls = <<>>
      /\ StubCalls = <<>>
      /\ next_trunk_target = tick.before
      /\ leaders_assigned = FALSE

\* a node is registered under a wire in a registry
RegisteredUnder(reg, w, n) ==
    \E i \in 1..Len(reg) : reg[i].key = w /\ n \in Range(reg[i].items)

\* C6: while assign_leaders scans the generation-1 branches, a node
\* registered under a wire by an earlier Tie or Mark is still registered
\* under that wire after every later branch, and each entry stays a list.
C6_RegistryAppendOnly ==
    tick.called =>
      LET trace == tick.leaders.reg_trace
      IN  /\ \A i \in 1..Len(trace) : \A k \in 1..Len(trace[i]) : trace[i][k].is_list
          /\ \A i, j \in 1..Len(trace) :
               i < j => \A k \in 1..Len(trace[i]) :
                          \A n \in Range(trace[i][k].items) :
                            RegisteredUnder(trace[j], trace[i][k].key, n)

\* every wire of range(self.wire_walls) has its quota in a registry whose
\* entries are lists
QuotaMet(reg) ==
    /\ wire_walls.kind = "int"
    /\ \A w \in 0..(wire_walls.count - 1) :
         /\ RegHas(reg, w)
         /\ RegEntry(reg, w).is_list
         /\ Len(RegEntry(reg, w).items) >= LeadersPerWall

\* the leaders whose first internode carries a Mark for wire w
MarkedFor(w) ==
    {b \in 1..Len(tree.branches) :
        /\ tree.branches[b].generation = 1
        /\ \E j \in 1..Len(tree.branches[b].pre_modules[1]) :
             tree.branches[b].pre_modules[1][j] = Mark(w)}

\* C11: when every wire 0..wire_walls-1 has at least leaders_per_wall
\* registered nodes at the capacity check, assign_leaders ends there: is_full
\* stays true, no cumulative distances and no wire lists are computed, no
\* candidate is examined or assigned, and nothing is raised.
C11_FullWiresEndAtCapacityCheck ==
    (tick.called /\ tick.examined /\ tick.leaders.checked
       /\ QuotaMet(tick.leaders.reg)) =>
      /\ tick.leaders.is_full
      /\ ~tick.leaders.greedy
      /\ tick.leaders.cum_dists = <<>>
      /\ tick.leaders.wall_spacings = <<>>
      /\ tick.leaders.steps = <<>>
      /\ tick.leaders.raised = "none"

\* two leaders marked for the only wire under a quota of two
C11_Witness ==
    /\ tick.called /\ tick.leaders.checked /\ QuotaMet(tick.leaders.reg)
    /\ LeadersPerWall = 2
    /\ Cardinality(MarkedFor(0)) = 2
    /\ tick.leaders.is_full

\* the Tie payloads <<wire id, slot index>> on internode k of a branch
TiesOn(br, k) ==
    {br.pre_modules[k][j][2] : j \in {i \in 1..Len(br.pre_modules[k]) :
                                        br.pre_modules[k][i][1] = "Tie"}}

\* C12: for every generation-1 branch and every one of its internodes, the
\* two nearest the trunk included, a Tie(wire id, slot index) on the internode
\* makes assign_leaders register the branch's attachment node under that wire
\* id and call manage_tied_branch on the nodes from the tie point to the tip
\* (seen here, on a wire whose last slot is the tied one, as the stub_branch
\* call on those nodes); an internode without modules raises nothing.
C12_EveryEdgeScannedForTie ==
    (tick.called /\ tick.examined /\ wire_walls.kind = "mapping") =>
      \A b \in 1..Len(tree.branches) :
        tree.branches[b].generation = 1 =>
          \A k \in 1..Len(tree.branches[b].pre_modules) :
            \A t \in TiesOn(tree.branches[b], k) :
              /\ RegisteredUnder(tick.leaders.reg, t[1], tree.branches[b].nodes[1])
              /\ (t[2] = Len(wire_walls.walls[t[1]]) - 1) =>
                   \E c \in 1..Len(StubCalls) :
                     StubCalls[c].nodes = SliceFrom(tree.branches[b].nodes, k)

\* the fold index of the spec: the first index of the cumulative-length table
\* whose value exceeds the curve length, the second-to-last node if none does
FirstExceeding(cumul_lens, curve_len, n) ==
    LET hits == {k \in 1..Len(cumul_lens) : cumul_lens[k] > curve_len}
    IN  IF hits = {} THEN n - 2
        ELSE (CHOOSE k \in hits : \A j \in hits : k <= j) - 1

\* C13: on a successful tie the span given to set_guide_on_nodes is
\* nodes[:idx + 2] for idx the first index of cumul_lens whose value exceeds
\* the curve length, index 0 included, and for the second-to-last node only
\* when no value exceeds it; the span starts at the tail's first node and lies
\* within the tail.
C13_FoldAtFirstExceedingIndex ==
    (tick.called /\ Len(GuideCalls) = 1) =>
      LET tail == tick.trunk.tail
          idx == FirstExceeding(tick.trunk.cumul_lens, tick.trunk.curve_len,
                                Len(tail))
      IN  /\ GuideCalls[1] = SliceTo(tail, idx + 2)
          /\ Len(GuideCalls[1]) >= 1
          /\ GuideCalls[1][1] = tail[1]
          /\ Len(GuideCalls[1]) <= Len(tail)

BareDist == ParamGet(params, "trunk_bare_dist", DefaultTrunkBareDist)

\* the distance from a position to the nearest position a wire holds
NearestOccupied(p, arr) ==
    IF Len(arr) = 0 THEN np_inf ELSE Num(NearestGap(p, arr))

\* the wires of a snapshot that may take a candidate: under the quota and no
\* nearer than leader_spacing
Eligible(st) ==
    {k \in 1..Len(st.before) :
        /\ Len(st.before[k].spacings) < LeadersPerWall
        /\ ~DistLess(NearestOccupied(st.cum_dist, st.before[k].spacings),
                     LeaderSpacing)}

\* C14: each candidate of the greedy pass goes to a wire whose nearest
\* occupied distance is the smallest among the wires under quota with a
\* distance of at least leader_spacing; a wire without positions is chosen
\* only when no populated wire is eligible; with no eligible wire the
\* candidate goes to no wire.
C14_TightestEligibleWire ==
    (tick.called /\ tick.leaders.greedy) =>
      \A i \in 1..Len(tick.leaders.steps) :
        LET st == tick.leaders.steps[i]
        IN  IF Eligible(st) = {} THEN st.wall_id = -1
            ELSE \E k \in Eligible(st) :
                   /\ st.wall_id = st.before[k].key
                   /\ \A j \in Eligible(st) :
                        ~DistBelow(NearestOccupied(st.cum_dist, st.before[j].spacings),
                                   NearestOccupied(st.cum_dist, st.before[k].spacings))
                   /\ (st.before[k].spacings = <<>>)
                        => \A j \in Eligible(st) : st.before[j].spacings = <<>>

\* one candidate takes a populated wire while an empty one is eligible, and
\* another takes the empty wire because the populated one is too near
C14_Witness ==
    /\ tick.called /\ tick.leaders.greedy
    /\ \E i \in 1..Len(tick.leaders.steps) :
         LET st == tick.leaders.steps[i]
         IN  /\ st.wall_id # -1
             /\ SpacingsOf(st.before, st.wall_id) # <<>>
             /\ \E j \in Eligible(st) : st.before[j].spacings = <<>>
    /\ \E i \in 1..Len(tick.leaders.steps) :
         LET st == tick.leaders.steps[i]
         IN  /\ st.wall_id # -1
             /\ SpacingsOf(st.before, st.wall_id) = <<>>
             /\ \E j \in 1..Len(st.before) :
                  /\ st.before[j].spacings # <<>>
                  /\ Len(st.before[j].spacings) < LeadersPerWall
                  /\ j \notin Eligible(st)

\* no leader carries a Mark
NoMarks ==
    \A b \in 1..Len(tree.branches) : \A k \in 1..Len(tree.branches[b].pre_modules) :
      \A j \in 1..Len(tree.branches[b].pre_modules[k]) :
        tree.branches[b].pre_modules[k][j][1] # "Mark"

\* the Ties the scan of assign_leaders reads: leader, internode, payload
ScannedTies ==
    UNION {UNION {{<<b, k, t>> : t \in TiesOn(tree.branches[b], k)} :
                     k \in 3..Len(tree.branches[b].pre_modules)} :
              b \in {c \in 1..Len(tree.branches) : tree.branches[c].generation = 1}}

\* C15: for a wall given as a sequence of wires, manage_tied_branch stubs the
\* nodes beyond the tie point with leader_excess_stub exactly when the tied
\* slot is the last of the sequence; for any other slot it stubs nothing and
\* raises nothing.
C15_StubOnlyOnLastSlot ==
    (tick.called /\ tick.examined /\ wire_walls.kind = "mapping" /\ NoMarks) =>
      /\ \A x \in ScannedTies :
           LET nodes == SliceFrom(tree.branches[x[1]].nodes, x[2])
               last == x[3][2] = Len(wire_walls.walls[x[3][1]]) - 1
               stubbed == \E c \in 1..Len(StubCalls) :
                            StubCalls[c] = [nodes |-> nodes,
                                            excess |-> ParamGet(params, "leader_excess_stub",
                                                                DefaultLeaderExcessStub)]
           IN  stubbed <=> last
      /\ tick.leaders.raised \notin {"AttributeError", "KeyError"}

\* the trunk nodes a greedy pass has put on a wire
AssignedNodes ==
    {tick.leaders.steps[i].node :
        i \in {j \in 1..Len(tick.leaders.steps) : tick.leaders.steps[j].wall_id # -1}}

ArcLengths(pts) ==
    CumSum([k \in 1..(Len(pts) - 1) |-> Norm(VSub(pts[k], pts[k + 1]))])

\* C17: the position assign_leaders uses for a trunk node is its arc length
\* along the trunk, the sum of the lengths of the internodes between the root
\* and the node, so the positions are non-negative and non-decreasing in the
\* order of the trunk nodes.
C17_PositionsAreArcLengths ==
    (tick.called /\ tick.leaders.greedy) =>
      LET trunk == tree.branches[search_branches(tree, 0)[1]]
          cum_dists == tick.leaders.cum_dists
      IN  /\ \A k \in 1..(Len(trunk.nodes) - 1) :
               /\ cum_dists[k] = ArcLengths(trunk.points)[k]
               /\ cum_dists[k] >= 0
               /\ k > 1 => cum_dists[k - 1] <= cum_dists[k]
          /\ \A i \in 1..Len(tick.leaders.steps) :
               \E k \in 1..(Len(trunk.nodes) - 1) :
                 /\ trunk.nodes[k + 1] = tick.leaders.steps[i].node
                 /\ tick.leaders.steps[i].cum_dist = ArcLengths(trunk.points)[k]

\* a tick runs on a trunk fit to be tied and gets favourable answers
FavourableTick == TrunkReady /\ tick'.called /\ tick'.favourable

\* C18: a tick skipped because the trunk is too short is tried again: if
\* again and again a tick finds the trunk long enough for the guard and the
\* fit converges, next_trunk_target moves past every target in turn, reaches
\* len(trunk_targets) and stays there.
C18_SkippedTickIsRetried ==
    ([]<><<FavourableTick>>_vars) => <>[](next_trunk_target = Len(trunk_targets))

\* every target is tied although a tick was skipped for want of length, and
\* a tick after the last tie has left the counter where it is
C18_Witness ==
    /\ waited
    /\ tick.called /\ tick.before = Len(trunk_targets)
    /\ next_trunk_target = Len(trunk_targets)
    /\ tied = trunk_targets

\* the wire lists as they are after the i-th candidate of the log
AfterStep(i) ==
    IF i < Len(tick.leaders.steps) THEN tick.leaders.steps[i + 1].before
    ELSE tick.leaders.wall_spacings

\* t holds the elements of s and one more x
OneMore(s, x, t) ==
    /\ Len(t) = Len(s) + 1
    /\ \E q \in 1..Len(t) :
         /\ t[q] = x
         /\ \A j \in 1..Len(s) : s[j] = t[IF j < q THEN j ELSE j + 1]

\* C19: in the greedy pass of one tick each candidate goes to at most one
\* wire: an assignment adds exactly one position, the candidate's, to the
\* list of exactly one wire and leaves the list of every other wire as it
\* was, and a candidate that is not assigned changes no list.
C19_OnePositionOnOneWire ==
    (tick.called /\ tick.leaders.greedy) =>
      \A i \in 1..Len(tick.leaders.steps) :
        LET st == tick.leaders.steps[i]
            after == AfterStep(i)
        IN  /\ Len(after) = Len(st.before)
            /\ \A k \in 1..Len(after) :
                 /\ after[k].key = st.before[k].key
                 /\ IF st.before[k].key = st.wall_id
                    THEN OneMore(st.before[k].spacings, st.cum_dist, after[k].spacings)
                    ELSE after[k].spacings = st.before[k].spacings
            /\ Cardinality({k \in 1..Len(after) :
                              after[k].spacings # st.before[k].spacings})
                 = (IF st.wall_id = -1 THEN 0 ELSE 1)
            /\ \A j \in 1..Len(tick.leaders.steps) :
                 j # i => tick.leaders.steps[j].node # st.node

\* a candidate joins the second of two wires while the first, which holds
\* positions and is under its quota, keeps its list
C19_Witness ==
    /\ tick.called /\ tick.leaders.greedy
    /\ \E i \in 1..Len(tick.leaders.steps) :
         LET st == tick.leaders.steps[i]
         IN  /\ Len(st.before) = 2
             /\ st.wall_id = st.before[2].key
             /\ st.before[1].spacings # <<>>
             /\ Len(st.before[1].spacings) < LeadersPerWall
             /\ AfterStep(i)[1].spacings = st.before[1].spacings

\* C20: every list query_dist_from_line_points is called on in the greedy
\* pass is in ascending order: the lists built from the registry are, and
\* they are again after every insertion.
C20_QueriedListsAscending ==
    (tick.called /\ tick.leaders.greedy) =>
      /\ \A i \in 1..Len(tick.leaders.steps) :
           \A k \in 1..Len(tick.leaders.steps[i].before) :
             IsAscending(tick.leaders.steps[i].before[k].spacings)
      /\ \A k \in 1..Len(tick.leaders.wall_spacings) :
           IsAscending(tick.leaders.wall_spacings[k].spacings)

\* a position is inserted before the ones its wire holds, and the list is
\* queried again afterwards
C20_Witness ==
    /\ tick.called /\ tick.leaders.greedy
    /\ \E i \in 1..(Len(tick.leaders.steps) - 1) :
         LET st == tick.leaders.steps[i]
         IN  /\ st.wall_id # -1
             /\ SpacingsOf(st.before, st.wall_id) # <<>>
             /\ st.cum_dist < SpacingsOf(st.before, st.wall_id)[1]
             /\ Len(SpacingsOf(AfterStep(i), st.wall_id)) < LeadersPerWall

====
